---- MODULE Spec2Model ----
(***************************************************************************)
(* Model of FocusBlockerBackground (src/background.js): the controller     *)
(* that times the focused tab per site, decides blur / no blur and sends   *)
(* applyBlur / removeBlur commands to the content script of a tab.         *)
(*                                                                         *)
(* Strings that the code takes apart (URLs, host names, site keys) are     *)
(* sequences of one-character strings.  JavaScript Maps are functions      *)
(* whose DOMAIN is the set of keys present.                                *)
(***************************************************************************)
EXTENDS Integers, Sequences, FiniteSets, TLC

VARIABLES
    now,               \* Date.now(), in ms
    today,             \* new Date().toDateString(), as a day number
    tabUrl,            \* browser: tab id -> url id (see UrlHost)
    tabWin,            \* browser: tab id -> window id
    winActive,         \* browser: window id -> its active tab
    focusedWin,        \* browser: focused window id, or WINDOW_ID_NONE
    renderer,          \* browser: tab id -> a content script is attached
    listening,         \* setupEventListeners has run
    config,            \* this.config
    siteTimeTrackers,  \* this.siteTimeTrackers
    activeSessions,    \* this.activeSessions
    messageQueue,      \* this.messageQueue
    activeTabId,       \* this.activeTabId
    tabBlurStates,     \* this.tabBlurStates
    waterBreakEndTime, \* this.waterBreakEndTime
    checkInterval,     \* this.checkInterval is set
    liveIntervals,     \* number of setInterval timers not yet cleared
    pending,           \* callbacks not yet run: tab lookups, timers
    inflight,          \* chrome.tabs.sendMessage promises not yet settled
    fx,                \* history: what the last step did
    exposure,          \* history: per site, ms it was the focused active tab
    prevTick,          \* history: tab and verdict of the last heartbeat check
    breakRemoved,      \* history: tabs sent removeBlur for a water break, and
                       \* no applyBlur since
    navigated,         \* history: tabs that navigated or reloaded, and no
                       \* "blur" verdict evaluated for them since
    beats              \* history: heartbeat timer firings taken on schedule

vars == <<now, today, tabUrl, tabWin, winActive, focusedWin, renderer, listening,
          config, siteTimeTrackers, activeSessions, messageQueue, activeTabId,
          tabBlurStates, waterBreakEndTime, checkInterval, liveIntervals,
          pending, inflight, fx, exposure, prevTick, breakRemoved, navigated, beats>>

----------------------------------------------------------------------------
(* Bounds of the model *)

\* number of clock advances, and the ms of each
MaxTicks == 2

ClockStep == 1000

\* the same where water breaks are taken
MaxBreakTicks == 4

BreakStep == 2500

\* clock advances of one water break each
MaxSweepTicks == 2

\* number of midnights that pass
MaxDays == 1

\* sendMessage promises outstanding at once
MaxInflight == 2

\* queued messages per tab
MaxQueue == 2

\* water breaks requested in one run
MaxBreaks == 2

\* clock advances of one water break each, where content scripts report
MaxReportTicks == 1

\* ms the clock can move on between two reads of it in one handler
MaxReadLag == 1

\* clock advances of half a heartbeat period in the timed scenario
ScenarioTicks == 72

----------------------------------------------------------------------------
(* Program constants *)

\* Date.now() + 5000, setTimeout(..., 5000)
WaterBreakMs == 5000

\* (timeoutSeconds || 30) * 1000
MsPerSecond == 1000

\* timeoutSeconds || 30, and setDefaultConfig
DefaultTimeoutSeconds == 30

\* checkIntervalMs || 1000, and setDefaultConfig
DefaultCheckIntervalMs == 1000

\* a falsy site key: null, or the empty host name
NullKey == << >>

\* this.activeTabId = null
NoTab == 0

\* this.waterBreakEndTime = null
NoTime == 0

\* this.config = null
NoConfig ==
    [present |-> FALSE, blurrableSites |-> << >>, timeoutSeconds |-> 0,
     checkIntervalMs |-> 0]

\* chrome.windows.WINDOW_ID_NONE
WINDOW_ID_NONE == -1

Tabs == {1, 2}

Windows == {1, 2}

----------------------------------------------------------------------------
(* Maps *)

EmptyMap == << >>

MapHas(m, k) == k \in DOMAIN m

MapSet(m, k, v) == [x \in (DOMAIN m) \cup {k} |-> IF x = k THEN v ELSE m[x]]

MapDelete(m, k) == [x \in (DOMAIN m) \ {k} |-> m[x]]

----------------------------------------------------------------------------
(* Strings *)

\* "youtube.com"
YoutubeCom == <<"y", "o", "u", "t", "u", "b", "e", ".", "c", "o", "m">>

\* String.prototype.includes
Includes(s, sub) ==
    \E i \in 0..(Len(s) - Len(sub)) : SubSeq(s, i + 1, i + Len(sub)) = sub

\* hostname.split('.')
RECURSIVE SplitDot(_)
SplitDot(s) ==
    IF \A i \in 1..Len(s) : s[i] # "."
    THEN <<s>>
    ELSE LET i == CHOOSE k \in 1..Len(s) :
                      s[k] = "." /\ \A j \in 1..(k - 1) : s[j] # "."
         IN <<SubSeq(s, 1, i - 1)>> \o SplitDot(SubSeq(s, i + 1, Len(s)))

\* parts.join('.')
RECURSIVE JoinDot(_)
JoinDot(parts) ==
    IF Len(parts) = 0 THEN << >>
    ELSE IF Len(parts) = 1 THEN parts[1]
    ELSE parts[1] \o <<".">> \o JoinDot(Tail(parts))

\* The addresses the tabs visit.  parses: new URL(url) does not throw;
\* hostname: urlObj.hostname.
UrlIds == {"yt", "news", "bad"}

UrlParses(u) == u # "bad"

UrlHost(u) ==
    CASE u = "yt"   -> <<"w", "w", "w", ".">> \o YoutubeCom
      [] u = "news" -> <<"n", "e", "w", "s", ".", "o", "r", "g">>
      [] OTHER      -> << >>

\* the text of an address that does not parse: "youtube.com", without a scheme
UrlText(u) == YoutubeCom

\* getSiteKey whose catch returns the address instead of null
SiteKeyOfUrl_ReturnsAddress(url) ==
    IF ~UrlParses(url) THEN UrlText(url)
    ELSE LET hostname == UrlHost(url)
             parts == SplitDot(hostname)
         IN IF Len(parts) >= 2
            THEN JoinDot(SubSeq(parts, Len(parts) - 1, Len(parts)))
            ELSE hostname

SiteKeyOfUrl(url) ==
    IF ~UrlParses(url) THEN NullKey
    ELSE LET hostname == UrlHost(url)
             parts == SplitDot(hostname)
         IN IF Len(parts) >= 2
            THEN JoinDot(SubSeq(parts, Len(parts) - 1, Len(parts)))
            ELSE hostname

\* getSiteKey on each address, computed once
SiteKeyTable == [u \in UrlIds |-> SiteKeyOfUrl(u)]

getSiteKey(url) == SiteKeyTable[url]

SiteKeys == {getSiteKey(u) : u \in UrlIds} \ {NullKey}

----------------------------------------------------------------------------
(* The controller.  Each operator takes the controller's state c (its      *)
(* fields, the callbacks and sends it has outstanding, and the record fx   *)
(* of what the step has done so far) and returns the state after the call. *)

Actions == {"applyBlur", "removeBlur"}

\* a sendMessage promise: sent, or settled and waiting for then/catch to run
Stages == {"sent", "ok", "noReceiver", "otherError"}

\* the promises are a bag: <<tab, action, stage>> -> how many
BagCount(bag, k) == IF k \in DOMAIN bag THEN bag[k] ELSE 0

BagAdd(bag, k) == MapSet(bag, k, BagCount(bag, k) + 1)

BagRemove(bag, k) ==
    IF BagCount(bag, k) <= 1 THEN MapDelete(bag, k) ELSE MapSet(bag, k, bag[k] - 1)

RECURSIVE BagSize(_)
BagSize(bag) ==
    IF DOMAIN bag = {} THEN 0
    ELSE LET k == CHOOSE x \in DOMAIN bag : TRUE
         IN bag[k] + BagSize(MapDelete(bag, k))

Self ==
    [config |-> config, siteTimeTrackers |-> siteTimeTrackers,
     activeSessions |-> activeSessions, messageQueue |-> messageQueue,
     activeTabId |-> activeTabId, tabBlurStates |-> tabBlurStates,
     waterBreakEndTime |-> waterBreakEndTime, checkInterval |-> checkInterval,
     liveIntervals |-> liveIntervals, pending |-> pending, inflight |-> inflight,
     fx |-> fx]

NoResp == [present |-> FALSE, totalTime |-> 0, timeoutMs |-> 0,
           shouldBeBlurred |-> FALSE, siteKey |-> NullKey]

\* nothing done yet by operation op on tab (or window, or 0)
NoFx(op, arg) ==
    [op |-> op, arg |-> arg, sent |-> << >>, posted |-> << >>, reads |-> {},
     resets |-> {}, folded |-> << >>, started |-> {}, ended |-> {},
     checked |-> << >>, resp |-> NoResp]

Begin(op, arg) == [Self EXCEPT !.fx = NoFx(op, arg)]

Note(c, field, v) == [c EXCEPT !.fx[field] = v]

Callback(kind, arg) == [kind |-> kind, arg |-> arg]

\* getSiteTimeTracker without the lastResetDate check: an entry of an earlier
\* day is returned as it is
getSiteTimeTracker_NeverResets(c, siteKey) ==
    IF siteKey = NullKey THEN c
    ELSE LET created ==
                 IF MapHas(c.siteTimeTrackers, siteKey) THEN c.siteTimeTrackers
                 ELSE MapSet(c.siteTimeTrackers, siteKey,
                             [totalElapsedTime |-> 0, lastResetDate |-> today])
         IN [c EXCEPT !.siteTimeTrackers = created,
                      !.fx.reads = @ \cup {siteKey}]

getSiteTimeTracker(c, siteKey) ==
    IF siteKey = NullKey THEN c
    ELSE LET created ==
                 IF MapHas(c.siteTimeTrackers, siteKey) THEN c.siteTimeTrackers
                 ELSE MapSet(c.siteTimeTrackers, siteKey,
                             [totalElapsedTime |-> 0, lastResetDate |-> today])
             tracker == created[siteKey]
             stale == tracker.lastResetDate # today
             checked ==
                 IF stale
                 THEN MapSet(created, siteKey,
                             [totalElapsedTime |-> 0, lastResetDate |-> today])
                 ELSE created
         IN [c EXCEPT !.siteTimeTrackers = checked,
                      !.fx.reads = @ \cup {siteKey},
                      !.fx.resets = IF stale
                                    THEN @ \cup {[siteKey |-> siteKey,
                                                  was |-> tracker.totalElapsedTime]}
                                    ELSE @]

isTargetSite(c, url) ==
    IF ~c.config.present THEN FALSE
    ELSE LET siteKey == getSiteKey(url)
         IN IF siteKey = NullKey THEN FALSE
            ELSE \E i \in 1..Len(c.config.blurrableSites) :
                     \/ Includes(siteKey, c.config.blurrableSites[i])
                     \/ Includes(c.config.blurrableSites[i], siteKey)

getTimeoutMs(c) ==
    (IF c.config.present /\ c.config.timeoutSeconds # 0
     THEN c.config.timeoutSeconds
     ELSE DefaultTimeoutSeconds) * MsPerSecond

isWaterBreakActive(c) ==
    c.waterBreakEndTime # NoTime /\ now < c.waterBreakEndTime

NoInfo == [ok |-> FALSE, totalTime |-> 0, timeoutMs |-> 0,
           shouldBeBlurred |-> FALSE, dailyTime |-> 0]

\* getTimeInfoForSite whose shouldBeBlurred leaves out isWaterBreakActive
getTimeInfoForSite_IgnoresWaterBreak(c, siteKey) ==
    IF siteKey = NullKey THEN NoInfo
    ELSE LET tracker == getSiteTimeTracker(c, siteKey).siteTimeTrackers[siteKey]
             hasSession == MapHas(c.activeSessions, c.activeTabId)
             sessionElapsed ==
                 IF hasSession /\ c.activeSessions[c.activeTabId].siteKey = siteKey
                 THEN now - c.activeSessions[c.activeTabId].startTime
                 ELSE 0
             combinedTime == tracker.totalElapsedTime + sessionElapsed
             timeoutMs == getTimeoutMs(c)
         IN [ok |-> TRUE, totalTime |-> combinedTime, timeoutMs |-> timeoutMs,
             shouldBeBlurred |-> combinedTime >= timeoutMs,
             dailyTime |-> tracker.totalElapsedTime]

\* the record getTimeInfoForSite returns, read from c after getSiteTimeTracker
getTimeInfoForSite(c, siteKey) ==
    IF siteKey = NullKey THEN NoInfo
    ELSE LET tracker == getSiteTimeTracker(c, siteKey).siteTimeTrackers[siteKey]
             hasSession == MapHas(c.activeSessions, c.activeTabId)
             sessionElapsed ==
                 IF hasSession /\ c.activeSessions[c.activeTabId].siteKey = siteKey
                 THEN now - c.activeSessions[c.activeTabId].startTime
                 ELSE 0
             combinedTime == tracker.totalElapsedTime + sessionElapsed
             timeoutMs == getTimeoutMs(c)
         IN [ok |-> TRUE, totalTime |-> combinedTime, timeoutMs |-> timeoutMs,
             shouldBeBlurred |-> combinedTime >= timeoutMs /\ ~isWaterBreakActive(c),
             dailyTime |-> tracker.totalElapsedTime]

isTabBlurred(c, tabId) ==
    MapHas(c.tabBlurStates, tabId) /\ c.tabBlurStates[tabId] = TRUE

sendMessageToTab(c, tabId, action) ==
    [c EXCEPT !.inflight = BagAdd(@, <<tabId, action, "sent">>),
              !.fx.sent = Append(@, [tab |-> tabId, action |-> action])]

updateBlurState(c, tabId, action) ==
    IF action = "applyBlur" THEN [c EXCEPT !.tabBlurStates = MapSet(@, tabId, TRUE)]
    ELSE IF action = "removeBlur"
    THEN [c EXCEPT !.tabBlurStates = MapSet(@, tabId, FALSE)]
    ELSE c

\* handleSendMessageError that queues the message whatever the error
handleSendMessageError_QueuesAll(c, error, tabId, action) ==
    LET q == IF MapHas(c.messageQueue, tabId) THEN c.messageQueue[tabId]
             ELSE << >>
    IN [c EXCEPT !.messageQueue = MapSet(@, tabId, Append(q, action))]

handleSendMessageError(c, error, tabId, action) ==
    IF error = "noReceiver"
    THEN LET q == IF MapHas(c.messageQueue, tabId) THEN c.messageQueue[tabId]
                  ELSE << >>
         IN [c EXCEPT !.messageQueue = MapSet(@, tabId, Append(q, action))]
    ELSE c

\* startHeartbeat without its clearInterval
startHeartbeat_NoClear(c) ==
    [c EXCEPT !.liveIntervals = @ + 1, !.checkInterval = TRUE]

startHeartbeat(c) ==
    LET cleared == IF c.checkInterval THEN c.liveIntervals - 1 ELSE c.liveIntervals
    IN [c EXCEPT !.liveIntervals = cleared + 1, !.checkInterval = TRUE]

stopHeartbeat(c) ==
    IF c.checkInterval
    THEN [c EXCEPT !.liveIntervals = @ - 1, !.checkInterval = FALSE]
    ELSE c

handleShouldBeBlurred(c, tab) ==
    IF ~isTabBlurred(c, tab.id) THEN sendMessageToTab(c, tab.id, "applyBlur") ELSE c

handleShouldNotBeBlurred(c, tab) ==
    IF isTabBlurred(c, tab.id) THEN sendMessageToTab(c, tab.id, "removeBlur") ELSE c

checkTabAndApplyBlur(c, tab) ==
    IF ~tab.active \/ ~isTargetSite(c, tab.url) THEN c
    ELSE LET siteKey == getSiteKey(tab.url)
         IN IF siteKey = NullKey THEN c
            ELSE IF isWaterBreakActive(c)
            THEN LET c1 == Note(c, "checked",
                                Append(c.fx.checked, [tab |-> tab.id, blur |-> FALSE]))
                 IN IF isTabBlurred(c1, tab.id)
                    THEN sendMessageToTab(c1, tab.id, "removeBlur")
                    ELSE c1
            ELSE LET timeInfo == getTimeInfoForSite(c, siteKey)
                     c1 == getSiteTimeTracker(c, siteKey)
                     c2 == Note(c1, "checked",
                                Append(c1.fx.checked,
                                       [tab |-> tab.id, blur |-> timeInfo.shouldBeBlurred]))
                 IN IF timeInfo.shouldBeBlurred
                    THEN handleShouldBeBlurred(c2, tab)
                    ELSE handleShouldNotBeBlurred(c2, tab)

\* processQueuedMessages without messageQueue.delete: the queue is posted and kept
processQueuedMessages_KeepsQueue(c, tabId) ==
    IF MapHas(c.messageQueue, tabId) /\ Len(c.messageQueue[tabId]) > 0
    THEN [c EXCEPT !.fx.posted = @ \o c.messageQueue[tabId]]
    ELSE c

processQueuedMessages(c, tabId) ==
    IF MapHas(c.messageQueue, tabId) /\ Len(c.messageQueue[tabId]) > 0
    THEN [c EXCEPT !.fx.posted = @ \o c.messageQueue[tabId],
                   !.messageQueue = MapDelete(@, tabId)]
    ELSE c

handlePortConnection(c, tabId) ==
    IF tabId # NoTab THEN processQueuedMessages(c, tabId) ELSE c

\* endActiveSession that stores the Session's time in place of the total
endActiveSession_OverwritesTotal(c, tabId) ==
    IF ~MapHas(c.activeSessions, tabId) THEN c
    ELSE LET sessionInfo == c.activeSessions[tabId]
             c1 == getSiteTimeTracker(c, sessionInfo.siteKey)
             elapsed == now - sessionInfo.startTime
             c2 == IF sessionInfo.siteKey # NullKey
                   THEN [c1 EXCEPT
                           !.siteTimeTrackers[sessionInfo.siteKey].totalElapsedTime =
                               elapsed,
                           !.fx.folded = Append(@, [siteKey |-> sessionInfo.siteKey,
                                                     ms |-> elapsed])]
                   ELSE c1
             c3 == [c2 EXCEPT !.activeSessions = MapDelete(@, tabId),
                              !.fx.ended = @ \cup {tabId}]
         IN stopHeartbeat(c3)

\* endActiveSession without stopHeartbeat: the Session goes, the timer stays
endActiveSession_KeepsHeartbeat(c, tabId) ==
    IF ~MapHas(c.activeSessions, tabId) THEN c
    ELSE LET sessionInfo == c.activeSessions[tabId]
             c1 == getSiteTimeTracker(c, sessionInfo.siteKey)
             elapsed == now - sessionInfo.startTime
             c2 == IF sessionInfo.siteKey # NullKey
                   THEN [c1 EXCEPT
                           !.siteTimeTrackers[sessionInfo.siteKey].totalElapsedTime =
                               @ + elapsed,
                           !.fx.folded = Append(@, [siteKey |-> sessionInfo.siteKey,
                                                     ms |-> elapsed])]
                   ELSE c1
         IN [c2 EXCEPT !.activeSessions = MapDelete(@, tabId),
                       !.fx.ended = @ \cup {tabId}]

endActiveSession(c, tabId) ==
    IF ~MapHas(c.activeSessions, tabId) THEN c
    ELSE LET sessionInfo == c.activeSessions[tabId]
             c1 == getSiteTimeTracker(c, sessionInfo.siteKey)
             elapsed == now - sessionInfo.startTime
             c2 == IF sessionInfo.siteKey # NullKey
                   THEN [c1 EXCEPT
                           !.siteTimeTrackers[sessionInfo.siteKey].totalElapsedTime =
                               @ + elapsed,
                           !.fx.folded = Append(@, [siteKey |-> sessionInfo.siteKey,
                                                     ms |-> elapsed])]
                   ELSE c1
             c3 == [c2 EXCEPT !.activeSessions = MapDelete(@, tabId),
                              !.fx.ended = @ \cup {tabId}]
         IN stopHeartbeat(c3)

startNewSession(c, tabId, siteKey) ==
    IF siteKey = NullKey THEN c
    ELSE LET c1 == getSiteTimeTracker(c, siteKey)
             c2 == [c1 EXCEPT !.activeSessions =
                                  MapSet(@, tabId, [siteKey |-> siteKey, startTime |-> now]),
                              !.fx.started = @ \cup {tabId}]
             c3 == startHeartbeat(c2)
         IN [c3 EXCEPT !.pending = @ \cup {Callback("check", tabId)}]

\* handleTabChange that starts a Session on any site with a site key
handleTabChange_AnySite(c, tab) ==
    LET siteKey == getSiteKey(tab.url)
        wasActive == MapHas(c.activeSessions, c.activeTabId)
        c1 == IF wasActive THEN endActiveSession(c, c.activeTabId) ELSE c
    IN IF siteKey # NullKey /\ tab.active
       THEN startNewSession(c1, tab.id, siteKey) ELSE c1

handleTabChange(c, tab) ==
    LET siteKey == getSiteKey(tab.url)
        isTarget == isTargetSite(c, tab.url)
        wasActive == MapHas(c.activeSessions, c.activeTabId)
        c1 == IF wasActive THEN endActiveSession(c, c.activeTabId) ELSE c
    IN IF isTarget /\ tab.active THEN startNewSession(c1, tab.id, siteKey) ELSE c1

handleTabActivated(c, tabId) ==
    [c EXCEPT !.activeTabId = tabId, !.pending = @ \cup {Callback("activated", tabId)}]

\* handleTabUpdated that looks at the active tab only
handleTabUpdated_ActiveOnly(c, tabId, relevant, tab) ==
    IF ~relevant \/ tabId # c.activeTabId THEN c
    ELSE LET c1 == [c EXCEPT !.tabBlurStates = MapDelete(@, tabId)]
             c2 == IF MapHas(c1.activeSessions, tabId)
                   THEN endActiveSession(c1, tabId) ELSE c1
         IN handleTabChange(c2, tab)

handleTabUpdated(c, tabId, relevant, tab) ==
    IF ~relevant THEN c
    ELSE LET c1 == [c EXCEPT !.tabBlurStates = MapDelete(@, tabId)]
             c2 == IF MapHas(c1.activeSessions, tabId)
                   THEN endActiveSession(c1, tabId) ELSE c1
         IN IF tabId = c2.activeTabId THEN handleTabChange(c2, tab) ELSE c2

\* handleNoWindowFocused that forgets the Session without folding its time
handleNoWindowFocused_DropsSession(c) ==
    IF c.activeTabId # NoTab
    THEN stopHeartbeat([c EXCEPT !.activeSessions = MapDelete(@, c.activeTabId)])
    ELSE c

handleNoWindowFocused(c) ==
    IF c.activeTabId # NoTab THEN endActiveSession(c, c.activeTabId) ELSE c

handleWindowFocusChanged(c, windowId) ==
    IF windowId = WINDOW_ID_NONE THEN handleNoWindowFocused(c)
    ELSE [c EXCEPT !.pending = @ \cup {Callback("focus", windowId)}]

heartbeatCheck(c) ==
    IF c.activeTabId = NoTab THEN c
    ELSE [c EXCEPT !.pending = @ \cup {Callback("heartbeat", c.activeTabId)}]

\* handleGetTimeStatus that writes the running Session's time into the tracker
handleGetTimeStatus_PersistsElapsed(c, senderTab) ==
    LET siteKey == getSiteKey(senderTab.url)
        timeInfo == getTimeInfoForSite(c, siteKey)
        c1 == getSiteTimeTracker(c, siteKey)
        c2 == IF timeInfo.ok
              THEN [c1 EXCEPT !.siteTimeTrackers[siteKey].totalElapsedTime =
                                 timeInfo.totalTime]
              ELSE c1
    IN Note(c2, "resp",
            [present |-> TRUE, totalTime |-> timeInfo.totalTime,
             timeoutMs |-> getTimeoutMs(c), shouldBeBlurred |-> timeInfo.shouldBeBlurred,
             siteKey |-> siteKey])

handleGetTimeStatus(c, senderTab) ==
    LET siteKey == getSiteKey(senderTab.url)
        timeInfo == getTimeInfoForSite(c, siteKey)
        c1 == getSiteTimeTracker(c, siteKey)
    IN IF timeInfo.ok
       THEN Note(c1, "resp",
                 [present |-> TRUE, totalTime |-> timeInfo.totalTime,
                  timeoutMs |-> timeInfo.timeoutMs,
                  shouldBeBlurred |-> timeInfo.shouldBeBlurred, siteKey |-> siteKey])
       ELSE Note(c1, "resp",
                 [present |-> TRUE, totalTime |-> 0, timeoutMs |-> getTimeoutMs(c1),
                  shouldBeBlurred |-> FALSE, siteKey |-> NullKey])

\* handleReportBlurState that trusts the report: a tab reported unblurred
\* has its Session dropped
handleReportBlurState_TrustsReport(c, tabId, isBlurred) ==
    [c EXCEPT !.tabBlurStates = MapSet(@, tabId, isBlurred),
              !.activeSessions = IF isBlurred THEN @ ELSE MapDelete(@, tabId)]

handleReportBlurState(c, tabId, isBlurred) ==
    [c EXCEPT !.tabBlurStates = MapSet(@, tabId, isBlurred)]

\* handleRequestWaterBreak without its setTimeout: the break is never swept
handleRequestWaterBreak_NoExpiry(c) ==
    [c EXCEPT !.waterBreakEndTime = now + WaterBreakMs,
              !.pending = @ \cup {Callback("breakQuery", 0)}]

handleRequestWaterBreak(c) ==
    [c EXCEPT !.waterBreakEndTime = now + WaterBreakMs,
              !.pending = @ \cup {Callback("breakQuery", 0),
                                  Callback("breakTimeout", now + WaterBreakMs)}]

\* the value of isWaterBreakActive() when Date.now() reads `at`:
\* waterBreakEndTime && Date.now() < waterBreakEndTime, null while no end time
\* is set
waterBreakActiveAt(c, at) ==
    IF c.waterBreakEndTime = NoTime THEN "null"
    ELSE IF at < c.waterBreakEndTime THEN "true" ELSE "false"

\* waterBreakActive ? this.waterBreakEndTime - Date.now() : 0, where the value
\* was computed when the clock read activeAt and Date.now() now reads `at`
waterBreakRemainingAt(c, activeAt, at) ==
    IF waterBreakActiveAt(c, activeAt) = "true" THEN c.waterBreakEndTime - at ELSE 0

\* sendDefaultPopupData; lag1 and lag2 are the ms the clock has moved on at
\* its two reads
sendDefaultPopupData(c, lag1, lag2) ==
    Note(c, "resp",
         [present |-> TRUE, totalTime |-> 0, timeoutMs |-> getTimeoutMs(c),
          shouldBeBlurred |-> FALSE, siteKey |-> NullKey,
          waterBreakActive |-> waterBreakActiveAt(c, now + lag1),
          waterBreakRemaining |-> waterBreakRemainingAt(c, now + lag1, now + lag2),
          dailyTime |-> 0, isTargetSite |-> FALSE])

\* getData, the chrome.tabs.get callback of handleGetPopupData
getData(c, tab, lag1, lag2) ==
    LET siteKey == getSiteKey(tab.url)
        timeInfo == getTimeInfoForSite(c, siteKey)
        c1 == getSiteTimeTracker(c, siteKey)
    IN IF timeInfo.ok
       THEN Note(c1, "resp",
                 [present |-> TRUE, totalTime |-> timeInfo.totalTime,
                  timeoutMs |-> timeInfo.timeoutMs,
                  shouldBeBlurred |-> timeInfo.shouldBeBlurred, siteKey |-> siteKey,
                  waterBreakActive |-> waterBreakActiveAt(c1, now + lag1),
                  waterBreakRemaining |->
                      waterBreakRemainingAt(c1, now + lag1, now + lag2),
                  dailyTime |-> timeInfo.dailyTime,
                  isTargetSite |-> isTargetSite(c1, tab.url)])
       ELSE sendDefaultPopupData(c1, lag1, lag2)

handleGetPopupData(c, lag1, lag2) ==
    IF c.activeTabId # NoTab
    THEN [c EXCEPT !.pending = @ \cup {Callback("popup", c.activeTabId)}]
    ELSE sendDefaultPopupData(c, lag1, lag2)

----------------------------------------------------------------------------
(* The browser, as the controller sees it *)

ExistingWindows == {tabWin[t] : t \in Tabs}

\* the Tab object chrome.tabs.get / query returns now
TabInfo(t) ==
    [id |-> t, url |-> tabUrl[t], active |-> winActive[tabWin[t]] = t,
     windowId |-> tabWin[t]]

\* the tab that is the active tab of the focused window, or NoTab
FocusedTab == IF focusedWin = WINDOW_ID_NONE THEN NoTab ELSE winActive[focusedWin]

\* a config.json, and setDefaultConfig
LoadedConfig ==
    [present |-> TRUE, blurrableSites |-> <<YoutubeCom>>, timeoutSeconds |-> 1,
     checkIntervalMs |-> DefaultCheckIntervalMs]

\* setDefaultConfig does not run: the config stays null
DefaultConfig_Unset == NoConfig


DefaultConfig ==
    [present |-> TRUE, blurrableSites |-> <<YoutubeCom>>,
     timeoutSeconds |-> DefaultTimeoutSeconds,
     checkIntervalMs |-> DefaultCheckIntervalMs]

NoTick == [tab |-> NoTab, blur |-> FALSE]

Browser == <<tabUrl, tabWin, winActive, focusedWin, renderer>>

Clock == <<now, today, exposure>>

Controller == <<config, siteTimeTrackers, activeSessions, messageQueue, activeTabId,
                tabBlurStates, waterBreakEndTime, checkInterval, liveIntervals>>

\* a step that sent, posted, read, folded, started, ended, checked or answered
\* nothing leaves no record of itself
Idle == NoFx("", 0)

Recorded(f) ==
    IF /\ f.sent = << >> /\ f.posted = << >> /\ f.reads = {} /\ f.folded = << >>
       /\ f.resets = {}
       /\ f.started = {} /\ f.ended = {} /\ f.checked = << >> /\ ~f.resp.present
    THEN Idle ELSE f

SentTo(f, action) == {f.sent[i].tab : i \in {j \in 1..Len(f.sent) : f.sent[j].action = action}}

\* the tabs unblurred for a water break and not blurred again since
BreakRemovedAfter(f) ==
    ((breakRemoved
        \cup (IF isWaterBreakActive(Self) THEN SentTo(f, "removeBlur") ELSE {}))
        \ SentTo(f, "applyBlur"))
        \ (IF f.op \in {"tabNavigated", "tabLoadComplete"} THEN {f.arg} ELSE {})

\* the tabs that navigated or reloaded (handleTabUpdated went past its
\* test of changeInfo) with no "blur" verdict evaluated for them since
NavigatedAfter(f) ==
    IF \/ f.op = "tabLoadComplete"
       \/ f.op = "tabNavigated" /\ tabUrl'[f.arg] # tabUrl[f.arg]
    THEN navigated \cup {f.arg}
    ELSE navigated \ {f.checked[i].tab : i \in {j \in 1..Len(f.checked) : f.checked[j].blur}}

\* the step's result becomes the controller's state; the caps keep the model finite
Commit(c) ==
    /\ BagSize(c.inflight) <= MaxInflight
    /\ \A t \in DOMAIN c.messageQueue : Len(c.messageQueue[t]) <= MaxQueue
    /\ config' = c.config
    /\ siteTimeTrackers' = c.siteTimeTrackers
    /\ activeSessions' = c.activeSessions
    /\ messageQueue' = c.messageQueue
    /\ activeTabId' = c.activeTabId
    /\ tabBlurStates' = c.tabBlurStates
    /\ waterBreakEndTime' = c.waterBreakEndTime
    /\ checkInterval' = c.checkInterval
    /\ liveIntervals' = c.liveIntervals
    /\ pending' = c.pending
    /\ inflight' = c.inflight
    /\ fx' = Recorded(c.fx)
    /\ breakRemoved' = BreakRemovedAfter(c.fx)
    /\ navigated' = NavigatedAfter(c.fx)
    /\ beats' = IF c.fx.op = "scheduledBeat" THEN beats + 1 ELSE beats

Done(c, cb) == [c EXCEPT !.pending = @ \ {cb}]

\* the constructor has run; the browser is in any state
Init ==
    /\ now = 0
    /\ today = 0
    /\ tabUrl \in [Tabs -> UrlIds]
    /\ tabWin \in {f \in [Tabs -> Windows] : f[1] = 1}
    /\ winActive \in {f \in [Windows -> Tabs \cup {NoTab}] :
                        \A w \in Windows :
                            IF \E t \in Tabs : tabWin[t] = w
                            THEN f[w] # NoTab /\ tabWin[f[w]] = w
                            ELSE f[w] = NoTab}
    /\ focusedWin \in ExistingWindows \cup {WINDOW_ID_NONE}
    /\ renderer \in [Tabs -> BOOLEAN]
    /\ listening = FALSE
    /\ config = NoConfig
    /\ siteTimeTrackers = EmptyMap
    /\ activeSessions = EmptyMap
    /\ messageQueue = EmptyMap
    /\ activeTabId = NoTab
    /\ tabBlurStates = EmptyMap
    /\ waterBreakEndTime = NoTime
    /\ checkInterval = FALSE
    /\ liveIntervals = 0
    /\ pending = {}
    /\ inflight = EmptyMap
    /\ fx = Idle
    /\ exposure = [s \in SiteKeys |-> 0]
    /\ prevTick = NoTick
    /\ breakRemoved = {}
    /\ navigated = {}
    /\ beats = 0

\* initialize: loadConfig (config.json, or the defaults when the fetch fails),
\* setupEventListeners, checkInitialTab
Initialize(loaded) ==
    /\ ~listening
    /\ listening' = TRUE
    /\ LET c0 == Begin("initialize", 0)
           c1 == [c0 EXCEPT !.config = IF loaded THEN LoadedConfig ELSE DefaultConfig]
       IN Commit([c1 EXCEPT !.pending = @ \cup {Callback("initialTab", 0)}])
    /\ prevTick' = NoTick
    /\ UNCHANGED <<Browser, Clock>>

\* checkInitialTab's query callback
InitialTabCallback(w) ==
    /\ Callback("initialTab", 0) \in pending
    /\ w \in ExistingWindows
    /\ focusedWin # WINDOW_ID_NONE => w = focusedWin
    /\ LET c0 == Done(Begin("initialTab", winActive[w]), Callback("initialTab", 0))
           tab == TabInfo(winActive[w])
       IN Commit(handleTabChange([c0 EXCEPT !.activeTabId = tab.id], tab))
    /\ prevTick' = NoTick
    /\ UNCHANGED <<Browser, Clock, listening>>

\* chrome.tabs.onActivated: the user switches to tab t in the focused window
TabActivated(t) ==
    /\ listening
    /\ focusedWin = tabWin[t]
    /\ winActive[tabWin[t]] # t
    /\ winActive' = [winActive EXCEPT ![tabWin[t]] = t]
    /\ Commit(handleTabActivated(Begin("tabActivated", t), t))
    /\ prevTick' = NoTick
    /\ UNCHANGED <<tabUrl, tabWin, focusedWin, renderer, Clock, listening>>

\* handleTabActivated after "await chrome.tabs.get"
TabActivatedCallback(t) ==
    /\ Callback("activated", t) \in pending
    /\ LET c0 == Done(Begin("tabActivatedCallback", t), Callback("activated", t))
       IN Commit(handleTabChange(c0, TabInfo(t)))
    /\ prevTick' = NoTick
    /\ UNCHANGED <<Browser, Clock, listening>>

\* chrome.tabs.onUpdated with changeInfo.url: tab t loads address u, and the
\* page's content script goes with the old page; a reload (same u) has no
\* changeInfo.url
TabNavigated(t, u) ==
    /\ listening
    /\ tabUrl' = [tabUrl EXCEPT ![t] = u]
    /\ renderer' = [renderer EXCEPT ![t] = FALSE]
    /\ LET tab == [TabInfo(t) EXCEPT !.url = u]
       IN Commit(handleTabUpdated(Begin("tabNavigated", t), t, u # tabUrl[t], tab))
    /\ prevTick' = NoTick
    /\ UNCHANGED <<tabWin, winActive, focusedWin, Clock, listening>>

\* chrome.tabs.onUpdated with changeInfo.status = 'complete'
TabLoadComplete(t) ==
    /\ listening
    /\ Commit(handleTabUpdated(Begin("tabLoadComplete", t), t, TRUE, TabInfo(t)))
    /\ prevTick' = NoTick
    /\ UNCHANGED <<Browser, Clock, listening>>

\* chrome.windows.onFocusChanged
WindowFocusChanged(w) ==
    /\ listening
    /\ w \in ExistingWindows \cup {WINDOW_ID_NONE}
    /\ w # focusedWin
    /\ focusedWin' = w
    /\ Commit(handleWindowFocusChanged(Begin("windowFocusChanged", w), w))
    /\ prevTick' = NoTick
    /\ UNCHANGED <<tabUrl, tabWin, winActive, renderer, Clock, listening>>

\* handleWindowFocusChanged after "await chrome.tabs.query"
WindowFocusCallback(w) ==
    /\ Callback("focus", w) \in pending
    /\ LET c0 == Done(Begin("windowFocusCallback", w), Callback("focus", w))
           tab == TabInfo(winActive[w])
       IN Commit(handleTabChange([c0 EXCEPT !.activeTabId = tab.id], tab))
    /\ prevTick' = NoTick
    /\ UNCHANGED <<Browser, Clock, listening>>

\* chrome.runtime.onConnect: the content script of tab t's page starts
ContentScriptConnects(t) ==
    /\ listening
    /\ ~renderer[t]
    /\ renderer' = [renderer EXCEPT ![t] = TRUE]
    /\ Commit(handlePortConnection(Begin("connect", t), t))
    /\ prevTick' = NoTick
    /\ UNCHANGED <<tabUrl, tabWin, winActive, focusedWin, Clock, listening>>

\* runtime message reportBlurState from the content script of tab t
ReportBlurState(t, isBlurred) ==
    /\ listening
    /\ renderer[t]
    /\ Commit(handleReportBlurState(Begin("reportBlurState", t), t, isBlurred))
    /\ prevTick' = NoTick
    /\ UNCHANGED <<Browser, Clock, listening>>

\* runtime message getTimeStatus from the content script of tab t
GetTimeStatus(t) ==
    /\ listening
    /\ renderer[t]
    /\ Commit(handleGetTimeStatus(Begin("getTimeStatus", t), TabInfo(t)))
    /\ prevTick' = NoTick
    /\ UNCHANGED <<Browser, Clock, listening>>

\* the ms by which two reads of Date.now() in one handler can differ
ReadLags == {<<l1, l2>> \in (0..MaxReadLag) \X (0..MaxReadLag) : l1 <= l2}

\* runtime message getPopupData from the popup
GetPopupData(lags) ==
    /\ listening
    /\ Commit(handleGetPopupData(Begin("getPopupData", 0), lags[1], lags[2]))
    /\ prevTick' = NoTick
    /\ UNCHANGED <<Browser, Clock, listening>>

\* handleGetPopupData's chrome.tabs.get callback
PopupDataCallback(t, lags) ==
    /\ Callback("popup", t) \in pending
    /\ LET c0 == Done(Begin("popupData", t), Callback("popup", t))
       IN Commit(getData(c0, TabInfo(t), lags[1], lags[2]))
    /\ prevTick' = NoTick
    /\ UNCHANGED <<Browser, Clock, listening>>

BreakTimeouts(S) == {cb \in S : cb.kind = "breakTimeout"}

\* runtime message requestWaterBreak from the popup; at most `breaks` at a time
RequestWaterBreak(breaks) ==
    /\ listening
    /\ Cardinality(BreakTimeouts(pending)) < breaks
    /\ Commit(handleRequestWaterBreak(Begin("requestWaterBreak", 0)))
    /\ prevTick' = NoTick
    /\ UNCHANGED <<Browser, Clock, listening>>

\* the same for the active tab alone, as the heartbeat would do it
RemoveBlurFromBlurredTabs_ActiveOnly(c, t) ==
    IF isTabBlurred(c, c.activeTabId)
    THEN sendMessageToTab(c, c.activeTabId, "removeBlur") ELSE c

\* tabs.forEach over chrome.tabs.query({}), from tab t on: removeBlur to the
\* tabs flagged blurred
RECURSIVE RemoveBlurFromBlurredTabs(_, _)
RemoveBlurFromBlurredTabs(c, t) ==
    IF t \notin Tabs THEN c
    ELSE RemoveBlurFromBlurredTabs(
             IF isTabBlurred(c, t) THEN sendMessageToTab(c, t, "removeBlur") ELSE c,
             t + 1)

\* tabs.forEach over chrome.tabs.query({}), from tab t on: re-check the tabs
\* on target sites
RECURSIVE RecheckTargetTabs(_, _)
RecheckTargetTabs(c, t) ==
    IF t \notin Tabs THEN c
    ELSE RecheckTargetTabs(
             IF isTargetSite(c, TabInfo(t).url)
             THEN checkTabAndApplyBlur(c, TabInfo(t)) ELSE c,
             t + 1)

\* handleRequestWaterBreak's first query callback
BreakQueryCallback ==
    /\ Callback("breakQuery", 0) \in pending
    /\ LET c0 == Done(Begin("breakQuery", 0), Callback("breakQuery", 0))
       IN Commit(RemoveBlurFromBlurredTabs(c0, 1))
    /\ prevTick' = NoTick
    /\ UNCHANGED <<Browser, Clock, listening>>

\* handleRequestWaterBreak's setTimeout(..., 5000) callback
BreakTimeout(at) ==
    /\ Callback("breakTimeout", at) \in pending
    /\ now >= at
    /\ LET c0 == Done(Begin("breakTimeout", at), Callback("breakTimeout", at))
       IN Commit([c0 EXCEPT !.waterBreakEndTime = NoTime,
                            !.pending = @ \cup {Callback("sweep", 0)}])
    /\ prevTick' = NoTick
    /\ UNCHANGED <<Browser, Clock, listening>>

\* the query callback inside that setTimeout callback: the expiry sweep
SweepCallback ==
    /\ Callback("sweep", 0) \in pending
    /\ LET c0 == Done(Begin("sweep", 0), Callback("sweep", 0))
       IN Commit(RecheckTargetTabs(c0, 1))
    /\ prevTick' = NoTick
    /\ UNCHANGED <<Browser, Clock, listening>>

\* the setInterval timer of startHeartbeat fires
HeartbeatTick ==
    /\ liveIntervals > 0
    /\ Commit(heartbeatCheck(Begin("heartbeatTick", activeTabId)))
    /\ UNCHANGED <<Browser, Clock, listening, prevTick>>

\* the period of the setInterval timer: config?.checkIntervalMs || 1000
HeartbeatMs ==
    IF config.present /\ config.checkIntervalMs # 0 THEN config.checkIntervalMs
    ELSE DefaultCheckIntervalMs

\* the timer of a heartbeat started at time 0 has a firing that is due
HeartbeatDue == liveIntervals > 0 /\ now >= (beats + 1) * HeartbeatMs

\* the setInterval timer fires on its schedule: once every HeartbeatMs
ScheduledBeat ==
    /\ HeartbeatDue
    /\ Commit(heartbeatCheck(Begin("scheduledBeat", activeTabId)))
    /\ UNCHANGED <<Browser, Clock, listening, prevTick>>

\* heartbeatCheck's chrome.tabs.get callback
HeartbeatCallback(t) ==
    /\ Callback("heartbeat", t) \in pending
    /\ LET c0 == Done(Begin("heartbeat", t), Callback("heartbeat", t))
           tab == TabInfo(t)
           c1 == IF isTargetSite(c0, tab.url) /\ tab.active
                 THEN checkTabAndApplyBlur(c0, tab) ELSE c0
       IN /\ Commit(c1)
          /\ prevTick' = IF c1.fx.checked = << >> THEN NoTick ELSE c1.fx.checked[1]
    /\ UNCHANGED <<Browser, Clock, listening>>

\* startNewSession's setTimeout(..., 100) and its chrome.tabs.get callback
SessionCheckCallback(t) ==
    /\ Callback("check", t) \in pending
    /\ LET c0 == Done(Begin("sessionCheck", t), Callback("check", t))
       IN Commit(checkTabAndApplyBlur(c0, TabInfo(t)))
    /\ prevTick' = NoTick
    /\ UNCHANGED <<Browser, Clock, listening>>

\* chrome.tabs.sendMessage reaches tab t: its content script answers, or there
\* is none ("Receiving end does not exist"), or the send fails otherwise
Deliver(t, action, outcome) ==
    /\ BagCount(inflight, <<t, action, "sent">>) > 0
    /\ IF renderer[t] THEN outcome \in {"ok", "otherError"} ELSE outcome = "noReceiver"
    /\ inflight' = BagAdd(BagRemove(inflight, <<t, action, "sent">>),
                          <<t, action, outcome>>)
    /\ fx' = Idle
    /\ UNCHANGED <<Browser, Clock, listening, prevTick, breakRemoved, navigated, beats,
                   Controller, pending>>

\* sendMessageToTab's then / catch
Settle(t, action, outcome) ==
    /\ outcome # "sent"
    /\ BagCount(inflight, <<t, action, outcome>>) > 0
    /\ LET c0 == [Begin("settle", t) EXCEPT
                    !.inflight = BagRemove(@, <<t, action, outcome>>)]
       IN Commit(IF outcome = "ok" THEN updateBlurState(c0, t, action)
                 ELSE handleSendMessageError(c0, outcome, t, action))
    /\ UNCHANGED <<Browser, Clock, listening, prevTick>>

\* the site whose tab is the active tab of the focused window, if it is tracked
ExposedSite ==
    IF FocusedTab # NoTab /\ isTargetSite(Self, tabUrl[FocusedTab])
    THEN getSiteKey(tabUrl[FocusedTab]) ELSE NullKey

\* step ms pass, perhaps past midnight; at most `ticks` times
Tick(step, ticks, midnight) ==
    /\ now < ticks * step
    /\ now' = now + step
    /\ midnight => today < MaxDays
    /\ today' = IF midnight THEN today + 1 ELSE today
    /\ exposure' = [s \in SiteKeys |->
                      IF midnight THEN 0
                      ELSE IF s = ExposedSite THEN exposure[s] + step
                      ELSE exposure[s]]
    /\ fx' = Idle
    /\ UNCHANGED <<Browser, listening, prevTick, breakRemoved, navigated, beats,
                   Controller, pending, inflight>>

----------------------------------------------------------------------------
(* Specifications.  Spec is the whole program; the others are the same     *)
(* program in a part of its environment, small enough to explore fully.    *)

Next ==
    \/ \E loaded \in BOOLEAN : Initialize(loaded)
    \/ \E w \in Windows : InitialTabCallback(w)
    \/ \E t \in Tabs : TabActivated(t)
    \/ \E t \in Tabs : TabActivatedCallback(t)
    \/ \E t \in Tabs, u \in UrlIds : TabNavigated(t, u)
    \/ \E t \in Tabs : TabLoadComplete(t)
    \/ \E w \in Windows \cup {WINDOW_ID_NONE} : WindowFocusChanged(w)
    \/ \E w \in Windows : WindowFocusCallback(w)
    \/ \E t \in Tabs : ContentScriptConnects(t)
    \/ \E t \in Tabs, b \in BOOLEAN : ReportBlurState(t, b)
    \/ \E t \in Tabs : GetTimeStatus(t)
    \/ \E lags \in ReadLags : GetPopupData(lags)
    \/ \E t \in Tabs, lags \in ReadLags : PopupDataCallback(t, lags)
    \/ RequestWaterBreak(MaxBreaks)
    \/ BreakQueryCallback
    \/ \E cb \in BreakTimeouts(pending) : BreakTimeout(cb.arg)
    \/ SweepCallback
    \/ HeartbeatTick
    \/ \E t \in Tabs : HeartbeatCallback(t)
    \/ \E t \in Tabs : SessionCheckCallback(t)
    \/ \E t \in Tabs, a \in Actions, o \in Stages : Deliver(t, a, o)
    \/ \E t \in Tabs, a \in Actions, o \in Stages : Settle(t, a, o)
    \/ \E m \in BOOLEAN : Tick(ClockStep, MaxTicks, m)

Spec == Init /\ [][Next]_vars

\* Focus and navigation events in any window layout, the clock standing still.
InitFocus ==
    /\ Init
    /\ focusedWin # WINDOW_ID_NONE
    /\ \A t \in Tabs : tabUrl[t] \in {"yt", "news"} /\ ~renderer[t]

NextFocus ==
    \/ \E loaded \in BOOLEAN : Initialize(loaded)
    \/ \E w \in Windows : InitialTabCallback(w)
    \/ \E t \in Tabs : TabActivated(t)
    \/ \E t \in Tabs : TabActivatedCallback(t)
    \/ \E t \in Tabs, u \in {"yt", "news"} : TabNavigated(t, u)
    \/ \E t \in Tabs : TabLoadComplete(t)
    \/ \E w \in Windows \cup {WINDOW_ID_NONE} : WindowFocusChanged(w)
    \/ \E w \in Windows : WindowFocusCallback(w)

SpecFocus == InitFocus /\ [][NextFocus]_vars

\* One window, tab 1 on a tracked site and tab 2 not, content scripts
\* attached; the user switches tabs and windows while time passes.
OneWindow ==
    /\ \A t \in Tabs : tabWin[t] = 1
    /\ tabUrl = [t \in Tabs |-> IF t = 1 THEN "yt" ELSE "news"]

InitTime ==
    /\ Init
    /\ OneWindow
    /\ focusedWin = 1
    /\ \A t \in Tabs : renderer[t]

NextTime ==
    \/ Initialize(TRUE)
    \/ \E w \in Windows : InitialTabCallback(w)
    \/ \E t \in Tabs : TabActivated(t)
    \/ \E t \in Tabs : TabActivatedCallback(t)
    \/ \E w \in Windows \cup {WINDOW_ID_NONE} : WindowFocusChanged(w)
    \/ \E w \in Windows : WindowFocusCallback(w)
    \/ \E t \in Tabs : GetTimeStatus(t)
    \/ \E t \in Tabs : SessionCheckCallback(t)
    \/ \E m \in BOOLEAN : Tick(ClockStep, MaxTicks, m)

SpecTime == InitTime /\ [][NextTime]_vars

\* One window with tab 1, on a tracked site, focused; its page reloads, its
\* content script comes and goes, the heartbeat runs and commands travel.
InitDelivery ==
    /\ Init
    /\ OneWindow
    /\ winActive[1] = 1
    /\ focusedWin = 1
    /\ ~renderer[2]

NextDelivery ==
    \/ Initialize(TRUE)
    \/ \E w \in Windows : InitialTabCallback(w)
    \/ TabNavigated(1, "yt")
    \/ TabLoadComplete(1)
    \/ ContentScriptConnects(1)
    \/ \E b \in BOOLEAN : ReportBlurState(1, b)
    \/ HeartbeatTick
    \/ \E t \in Tabs : HeartbeatCallback(t)
    \/ \E t \in Tabs : SessionCheckCallback(t)
    \/ \E t \in Tabs, a \in Actions, o \in Stages : Deliver(t, a, o)
    \/ \E t \in Tabs, a \in Actions, o \in Stages : Settle(t, a, o)
    \/ Tick(ClockStep, MaxTicks, FALSE)

SpecDelivery == InitDelivery /\ [][NextDelivery]_vars

\* One window with tab 1, on a tracked site, focused, content scripts
\* attached; the user takes water breaks while the heartbeat runs.
InitOverride ==
    /\ Init
    /\ OneWindow
    /\ winActive[1] = 1
    /\ focusedWin = 1
    /\ \A t \in Tabs : renderer[t]

NextOverride ==
    \/ Initialize(TRUE)
    \/ \E w \in Windows : InitialTabCallback(w)
    \/ RequestWaterBreak(MaxBreaks)
    \/ BreakQueryCallback
    \/ \E cb \in BreakTimeouts(pending) : BreakTimeout(cb.arg)
    \/ SweepCallback
    \/ HeartbeatTick
    \/ \E t \in Tabs : HeartbeatCallback(t)
    \/ \E t \in Tabs : SessionCheckCallback(t)
    \/ \E t \in Tabs, a \in Actions : Deliver(t, a, "ok")
    \/ \E t \in Tabs, a \in Actions : Settle(t, a, "ok")
    \/ Tick(BreakStep, MaxBreakTicks, FALSE)

SpecOverride == InitOverride /\ [][NextOverride]_vars

\* One window with two tabs on the same tracked site, tab 1 focused; the
\* user switches to tab 2 and takes one water break.
InitSweep ==
    /\ Init
    /\ \A t \in Tabs : tabWin[t] = 1 /\ tabUrl[t] = "yt" /\ renderer[t]
    /\ winActive[1] = 1
    /\ focusedWin = 1

NextSweep ==
    \/ Initialize(TRUE)
    \/ \E w \in Windows : InitialTabCallback(w)
    \/ TabActivated(2)
    \/ TabActivatedCallback(2)
    \/ RequestWaterBreak(1)
    \/ BreakQueryCallback
    \/ \E cb \in BreakTimeouts(pending) : BreakTimeout(cb.arg)
    \/ SweepCallback
    \/ \E t \in Tabs : SessionCheckCallback(t)
    \/ \E t \in Tabs, a \in Actions : Deliver(t, a, "ok")
    \/ \E t \in Tabs, a \in Actions : Settle(t, a, "ok")
    \/ Tick(WaterBreakMs, MaxSweepTicks, FALSE)

SpecSweep == InitSweep /\ [][NextSweep]_vars

\* The verdict as a function of its inputs: the controller listening, with any
\* configured timeout, any total near a timeout on the tracked site's entry,
\* and a Session on tab 1 or none.
TimeoutSecondsValues == {0, 1, 2}

NearTimeouts ==
    {0} \cup {k * MsPerSecond - d : k \in {1, 2, DefaultTimeoutSeconds}, d \in {0, 1}}

InitVerdict ==
    /\ now = 0
    /\ today = 0
    /\ tabWin = [t \in Tabs |-> 1]
    /\ OneWindow
    /\ winActive = [w \in Windows |-> IF w = 1 THEN 1 ELSE NoTab]
    /\ focusedWin = 1
    /\ renderer = [t \in Tabs |-> TRUE]
    /\ listening = TRUE
    /\ config \in {[LoadedConfig EXCEPT !.timeoutSeconds = seconds] :
                     seconds \in TimeoutSecondsValues}
    /\ siteTimeTrackers \in
         {MapSet(EmptyMap, YoutubeCom, [totalElapsedTime |-> total, lastResetDate |-> 0]) :
            total \in NearTimeouts}
    /\ activeSessions \in
         {EmptyMap, MapSet(EmptyMap, 1, [siteKey |-> YoutubeCom, startTime |-> 0])}
    /\ messageQueue = EmptyMap
    /\ activeTabId = 1
    /\ tabBlurStates = EmptyMap
    /\ waterBreakEndTime = NoTime
    /\ checkInterval = (activeSessions # EmptyMap)
    /\ liveIntervals = IF activeSessions # EmptyMap THEN 1 ELSE 0
    /\ pending = {}
    /\ inflight = EmptyMap
    /\ fx = Idle
    /\ exposure = [s \in SiteKeys |-> 0]
    /\ prevTick = NoTick
    /\ breakRemoved = {}
    /\ navigated = {}
    /\ beats = 0

NextVerdict ==
    \/ \E t \in Tabs : GetTimeStatus(t)
    \/ RequestWaterBreak(1)
    \/ Tick(ClockStep, MaxTicks, FALSE)

SpecVerdict == InitVerdict /\ [][NextVerdict]_vars

\* Tabs of one window on a tracked address or on one that does not parse.
InitAddress ==
    /\ Init
    /\ \A t \in Tabs : tabWin[t] = 1 /\ tabUrl[t] \in {"yt", "bad"} /\ ~renderer[t]
    /\ focusedWin = 1

NextAddress ==
    \/ \E loaded \in BOOLEAN : Initialize(loaded)
    \/ \E w \in Windows : InitialTabCallback(w)
    \/ \E t \in Tabs : TabActivated(t)
    \/ \E t \in Tabs : TabActivatedCallback(t)
    \/ \E t \in Tabs, u \in {"yt", "bad"} : TabNavigated(t, u)
    \/ \E t \in Tabs : TabLoadComplete(t)
    \/ \E w \in Windows \cup {WINDOW_ID_NONE} : WindowFocusChanged(w)
    \/ \E w \in Windows : WindowFocusCallback(w)

SpecAddress == InitAddress /\ [][NextAddress]_vars

\* Tab 1 leaves the tracked site and comes back, with its content script
\* attaching late.
NextReplay ==
    \/ Initialize(TRUE)
    \/ \E w \in Windows : InitialTabCallback(w)
    \/ \E u \in {"yt", "news"} : TabNavigated(1, u)
    \/ ContentScriptConnects(1)
    \/ HeartbeatTick
    \/ \E t \in Tabs : HeartbeatCallback(t)
    \/ \E t \in Tabs : SessionCheckCallback(t)
    \/ \E a \in Actions, o \in Stages : Deliver(1, a, o)
    \/ \E a \in Actions, o \in Stages : Settle(1, a, o)
    \/ Tick(ClockStep, MaxTicks, FALSE)

SpecReplay == InitDelivery /\ [][NextReplay]_vars

\* One focused window with both tabs, content scripts attached: the user
\* switches tabs while the pages navigate and reload and time passes.
NextUpdate ==
    \/ Initialize(TRUE)
    \/ \E w \in Windows : InitialTabCallback(w)
    \/ \E t \in Tabs : TabActivated(t)
    \/ \E t \in Tabs : TabActivatedCallback(t)
    \/ \E t \in Tabs, u \in {"yt", "news"} : TabNavigated(t, u)
    \/ \E t \in Tabs : TabLoadComplete(t)
    \/ Tick(ClockStep, MaxTicks, FALSE)

SpecUpdate == InitTime /\ [][NextUpdate]_vars

\* One window, tab 1 on the tracked site focused, content scripts attached:
\* the content script asks for the verdict and the heartbeat runs while time
\* passes, perhaps past midnight, and the window loses focus.
NextQuery ==
    \/ Initialize(TRUE)
    \/ \E w \in Windows : InitialTabCallback(w)
    \/ WindowFocusChanged(WINDOW_ID_NONE)
    \/ GetTimeStatus(1)
    \/ HeartbeatTick
    \/ \E t \in Tabs : HeartbeatCallback(t)
    \/ \E t \in Tabs : SessionCheckCallback(t)
    \/ \E a \in Actions : Deliver(1, a, "ok")
    \/ \E a \in Actions : Settle(1, a, "ok")
    \/ \E m \in BOOLEAN : Tick(ClockStep, MaxTicks, m)

SpecQuery == InitOverride /\ [][NextQuery]_vars

\* One focused window with both tabs, content scripts attached to the pages
\* first shown: the user switches tabs, the pages go to tracked and untracked
\* sites, and content scripts ask for the verdict while time passes.
NextTracked ==
    \/ Initialize(TRUE)
    \/ \E w \in Windows : InitialTabCallback(w)
    \/ \E t \in Tabs : TabActivated(t)
    \/ \E t \in Tabs : TabActivatedCallback(t)
    \/ \E t \in Tabs, u \in {"yt", "news"} : TabNavigated(t, u)
    \/ \E t \in Tabs : GetTimeStatus(t)
    \/ Tick(ClockStep, MaxTicks, FALSE)

SpecTracked == InitTime /\ [][NextTracked]_vars

\* One window with tab 1 on the tracked site focused: the user takes a water
\* break and opens the popup, which asks for its data; the clock goes to the
\* last millisecond of a break taken at time 0 and on from there a millisecond
\* at a time.
PopupTick(step) ==
    /\ IF now = 0 THEN step = WaterBreakMs - 1 ELSE step = 1
    /\ now + step <= WaterBreakMs + MaxReadLag
    /\ Tick(step, WaterBreakMs + MaxReadLag, FALSE)

NextPopup ==
    \/ Initialize(TRUE)
    \/ \E w \in Windows : InitialTabCallback(w)
    \/ WindowFocusChanged(WINDOW_ID_NONE)
    \/ RequestWaterBreak(1)
    \/ BreakQueryCallback
    \/ \E cb \in BreakTimeouts(pending) : BreakTimeout(cb.arg)
    \/ SweepCallback
    \/ \E lags \in ReadLags : GetPopupData(lags)
    \/ \E t \in Tabs, lags \in ReadLags : PopupDataCallback(t, lags)
    \/ \E t \in Tabs : SessionCheckCallback(t)
    \/ \E a \in Actions : Deliver(1, a, "ok")
    \/ \E a \in Actions : Settle(1, a, "ok")
    \/ \E step \in {1, WaterBreakMs - 1} : PopupTick(step)

SpecPopup == InitOverride /\ [][NextPopup]_vars

\* One window with tab 1 focused, content scripts attached: the content
\* script reports its blur state at will and asks for the verdict, while the
\* page finishes loading again, the window loses focus and the user takes a
\* water break.
NextReport ==
    \/ Initialize(TRUE)
    \/ \E w \in Windows : InitialTabCallback(w)
    \/ TabLoadComplete(1)
    \/ WindowFocusChanged(WINDOW_ID_NONE)
    \/ \E b \in BOOLEAN : ReportBlurState(1, b)
    \/ GetTimeStatus(1)
    \/ RequestWaterBreak(1)
    \/ BreakQueryCallback
    \/ \E cb \in BreakTimeouts(pending) : BreakTimeout(cb.arg)
    \/ SweepCallback
    \/ \E t \in Tabs : SessionCheckCallback(t)
    \/ \E a \in Actions : Deliver(1, a, "ok")
    \/ \E a \in Actions : Settle(1, a, "ok")
    \/ Tick(WaterBreakMs, MaxReportTicks, FALSE)

SpecReport == InitOverride /\ [][NextReport]_vars

\* The timed scenario: the default configuration (30 s), tab 1 on the tracked
\* site focused from time 0 with its content script attached.  The clock
\* advances by half a heartbeat period, and only when every callback that is
\* due has run and every command has been answered; the user asks for one
\* water break, half a period after the timeout is reached.
HalfBeat == DefaultCheckIntervalMs \div 2

ScenarioTimeout == DefaultTimeoutSeconds * MsPerSecond

ScenarioOverrideAt == ScenarioTimeout + HalfBeat

ScenarioBreakEnd == ScenarioOverrideAt + WaterBreakMs

InitScenario ==
    /\ Init
    /\ OneWindow
    /\ winActive[1] = 1
    /\ focusedWin = 1
    /\ \A t \in Tabs : renderer[t]

ScenarioOverride ==
    /\ now = ScenarioOverrideAt
    /\ waterBreakEndTime = NoTime
    /\ RequestWaterBreak(1)

ScenarioQuiescent ==
    /\ listening
    /\ inflight = EmptyMap
    /\ \A cb \in pending : cb.kind = "breakTimeout" /\ now < cb.arg
    /\ ~HeartbeatDue
    /\ now = ScenarioOverrideAt => waterBreakEndTime # NoTime

ScenarioTick ==
    /\ ScenarioQuiescent
    /\ Tick(HalfBeat, ScenarioTicks, FALSE)

NextScenario ==
    \/ Initialize(FALSE)
    \/ InitialTabCallback(1)
    \/ SessionCheckCallback(1)
    \/ ScheduledBeat
    \/ HeartbeatCallback(1)
    \/ ScenarioOverride
    \/ BreakQueryCallback
    \/ \E cb \in BreakTimeouts(pending) : BreakTimeout(cb.arg)
    \/ SweepCallback
    \/ \E a \in Actions : Deliver(1, a, "ok")
    \/ \E a \in Actions : Settle(1, a, "ok")
    \/ ScenarioTick

SpecScenario == InitScenario /\ [][NextScenario]_vars

----------------------------------------------------------------------------
(* Claims *)

Sessions == DOMAIN activeSessions

TotalOf(trackers, s) == IF MapHas(trackers, s) THEN trackers[s].totalElapsedTime ELSE 0

\* C1: whatever focus events arrive and in whatever order the tab lookups
\* complete, activeSessions holds at most one Session.
C1_AtMostOneSession == Cardinality(Sessions) <= 1

\* C2: within one calendar day the time folded into a site's total is never
\* more than the time a tab on that site was the active tab of the focused
\* window: it includes no time when another tab was active or no window focused.
C2_FoldedIsExposure ==
    today = 0 => \A s \in SiteKeys : TotalOf(siteTimeTrackers, s) <= exposure[s]

\* no reply of a tab lookup (tabs.get, tabs.query) is outstanding
LookupsSettled ==
    \A cb \in pending : cb.kind \notin {"initialTab", "activated", "focus"}

\* C8: once the tab lookups have been answered, every Session belongs to the
\* current active tab, and while no window is focused there is no Session.
C8_SessionOnlyWhileFocused ==
    LookupsSettled =>
        /\ \A t \in Sessions : t = activeTabId
        /\ focusedWin = WINDOW_ID_NONE => Sessions = {}

RECURSIVE FoldedInto(_, _)
FoldedInto(folded, s) ==
    IF folded = << >> THEN 0
    ELSE (IF Head(folded).siteKey = s THEN Head(folded).ms ELSE 0)
         + FoldedInto(Tail(folded), s)

\* C9: a step that reads or folds into an entry left from an earlier day
\* first zeroes it and dates it today, so that afterwards it holds only what
\* the step folded; a step that reads an entry of today changes only what it
\* folds into it.
C9_DailyReset ==
    [][\A s \in SiteKeys :
         (MapHas(siteTimeTrackers, s) /\ s \in fx'.reads) =>
            /\ siteTimeTrackers'[s].lastResetDate = today
            /\ siteTimeTrackers'[s].totalElapsedTime =
                   (IF siteTimeTrackers[s].lastResetDate # today THEN 0
                    ELSE siteTimeTrackers[s].totalElapsedTime)
                   + FoldedInto(fx'.folded, s)]_vars

\* a status query has just zeroed an entry that held time from the day before
C9_Witness ==
    /\ fx.op = "getTimeStatus"
    /\ \E r \in fx.resets : r.was > 0 /\ siteTimeTrackers[r.siteKey].totalElapsedTime = 0

\* C3: a heartbeat check whose verdict for the tab equals that of the
\* heartbeat check before it sends nothing, and one whose verdict differs
\* sends exactly one command.
C3_DeliveryIdempotence ==
    [][(fx'.op = "heartbeat" /\ fx'.checked # << >> /\ prevTick.tab = fx'.checked[1].tab) =>
          IF fx'.checked[1].blur = prevTick.blur
          THEN fx'.sent = << >>
          ELSE Len(fx'.sent) = 1]_vars

QueueOf(queues, t) == IF MapHas(queues, t) THEN queues[t] ELSE << >>

NoReceiverSettled(t, action) ==
    BagCount(inflight', <<t, action, "noReceiver">>)
        < BagCount(inflight, <<t, action, "noReceiver">>)

\* C4: a command whose send failed for want of a content script goes to the
\* tail of the tab's queue; when the tab's content script connects the queue
\* is posted to it as it stands, in order, and emptied; no other step changes
\* a queue or posts anything.
C4_QueuedExactlyOnceInOrder ==
    [][\A t \in Tabs :
         IF renderer'[t] /\ ~renderer[t]
         THEN /\ fx'.posted = QueueOf(messageQueue, t)
              /\ QueueOf(messageQueue', t) = << >>
         ELSE IF \E a \in Actions : NoReceiverSettled(t, a)
         THEN \E a \in Actions :
                 /\ NoReceiverSettled(t, a)
                 /\ QueueOf(messageQueue', t) = Append(QueueOf(messageQueue, t), a)
         ELSE /\ QueueOf(messageQueue', t) = QueueOf(messageQueue, t)
              /\ (fx'.arg = t => fx'.posted = << >>)]_vars

\* a connecting content script has just been posted two queued commands
C4_Witness ==
    /\ fx.op = "connect"
    /\ Len(fx.posted) = 2
    /\ fx.posted[1] # fx.posted[2]
    /\ ~MapHas(messageQueue, fx.arg)

\* C5: while the water break is active the verdict for every site is "not
\* blurred", whatever its elapsed time, and the step just taken in such a
\* state (a heartbeat check, a sweep, a session check) found no tab to blur
\* and sent no applyBlur.
C5_OverridePrecedence ==
    isWaterBreakActive(Self) =>
        /\ \A s \in SiteKeys : ~getTimeInfoForSite(Self, s).shouldBeBlurred
        /\ \A i \in 1..Len(fx.checked) : ~fx.checked[i].blur
        /\ SentTo(fx, "applyBlur") = {}

\* a heartbeat check has just run during a water break, on a site over its timeout
C5_Witness ==
    /\ isWaterBreakActive(Self)
    /\ fx.op = "heartbeat"
    /\ \E i \in 1..Len(fx.checked) :
          LET s == getSiteKey(tabUrl[fx.checked[i].tab])
          IN getTimeInfoForSite(Self, s).totalTime >= getTimeoutMs(Self)

\* C6: a water break requested while an earlier one is active replaces it:
\* until 5000 ms after the latest request the water break stays active and
\* is not cleared.
C6_NewBreakReplacesOld ==
    \A cb \in BreakTimeouts(pending) : now < cb.arg => isWaterBreakActive(Self)

SweepStep == Callback("sweep", 0) \in pending /\ Callback("sweep", 0) \notin pending'

\* C7: the sweep at the end of a water break sends applyBlur to every tab
\* that was unblurred for the water break (the removeBlur sent during it has
\* been answered) and is on a tracked site whose elapsed time is at or over
\* the timeout, unless a new water break has begun.
C7_ExpiryRestoresBlur ==
    [][(SweepStep /\ ~isWaterBreakActive(Self)) =>
         \A t \in breakRemoved :
            (/\ MapHas(tabBlurStates, t) /\ ~tabBlurStates[t]
             /\ isTargetSite(Self, tabUrl[t])
             /\ getTimeInfoForSite(Self, getSiteKey(tabUrl[t])).totalTime
                    >= getTimeoutMs(Self))
            => t \in SentTo(fx', "applyBlur")]_vars

\* accumulated time of a site plus the time of the Session in flight on it
ElapsedFor(s) ==
    TotalOf(siteTimeTrackers, s)
      + (IF MapHas(activeSessions, activeTabId) /\ activeSessions[activeTabId].siteKey = s
         THEN now - activeSessions[activeTabId].startTime
         ELSE 0)

VerdictGiven ==
    /\ fx.op = "getTimeStatus"
    /\ fx.resp.present
    /\ fx.resp.siteKey # NullKey
    /\ ~isWaterBreakActive(Self)

\* C10: with no water break active, the verdict answered for a site has
\* shouldBeBlurred true exactly when the site's elapsed time (accumulated plus
\* in-flight session time) is at least the configured timeoutSeconds, in ms,
\* whatever timeoutSeconds is configured.
C10_ThresholdEdge ==
    VerdictGiven =>
        (fx.resp.shouldBeBlurred
           <=> ElapsedFor(fx.resp.siteKey) >= config.timeoutSeconds * MsPerSecond)

\* C13: whenever the heartbeat timer is scheduled (checkInterval is set, or a
\* setInterval timer is still live) at least one Session exists.
C13_NoHeartbeatWithoutSession ==
    (checkInterval \/ liveIntervals > 0) => Sessions # {}

\* the step just taken ended a Session and started one, and the timer runs
C13_Witness ==
    /\ fx.ended # {}
    /\ fx.started # {}
    /\ checkInterval
    /\ liveIntervals = 1

\* C14: once the tab lookups have been answered, a Session of the current
\* active tab has the heartbeat timer scheduled, whatever happened to other tabs.
C14_HeartbeatWhileSession ==
    (LookupsSettled /\ MapHas(activeSessions, activeTabId)) => checkInterval

\* the reply of the tabs.get lookup of a tab-activated event for tab t is handled
ActivatedReply(t) ==
    Callback("activated", t) \in pending /\ Callback("activated", t) \notin pending'

\* the reply of the tabs.query lookup of a focus-gained event for window w is handled
FocusReply(w) ==
    Callback("focus", w) \in pending /\ Callback("focus", w) \notin pending'

\* C18: handling a tab-activated event for tab t ends every Session of
\* another tab: it is folded into its site's total and removed.
C18_ActivationEndsPriorSession ==
    [][\A t \in Tabs : ActivatedReply(t) =>
          \A s \in Sessions \ {t} :
              /\ s \notin DOMAIN activeSessions'
              /\ \E i \in 1..Len(fx'.folded) :
                    /\ fx'.folded[i].siteKey = activeSessions[s].siteKey
                    /\ fx'.folded[i].ms = now - activeSessions[s].startTime]_vars

\* C19: the reply of a lookup that comes after the active tab has changed
\* again (a tab-activated reply for a tab that is no longer the active tab, a
\* focus-gained reply for a window that is no longer focused) starts no
\* Session for the stale tab and ends no Session of the tab active now.
C19_LateReplyRevalidates ==
    [][/\ \A t \in Tabs : (ActivatedReply(t) /\ activeTabId # t) =>
             /\ t \notin DOMAIN activeSessions' \ Sessions
             /\ activeTabId \in Sessions => activeTabId \in DOMAIN activeSessions'
       /\ \A w \in Windows : (FocusReply(w) /\ focusedWin \notin {w, WINDOW_ID_NONE}) =>
             /\ winActive[w] \notin DOMAIN activeSessions' \ Sessions
             /\ FocusedTab \in Sessions => FocusedTab \in DOMAIN activeSessions']_vars

\* C16: initialization ends with a configuration installed, the event
\* handlers registered and the initial tab check started; when the
\* configuration is not the loaded one it is the built-in defaults
\* (youtube.com, 30 s timeout, 1000 ms tick); and the controller is never
\* listening without a configuration.
C16_ConfigFallback ==
    /\ [](listening => config.present)
    /\ [][(~listening /\ listening') =>
            /\ config'.present
            /\ Callback("initialTab", 0) \in pending'
            /\ config' # LoadedConfig =>
                  /\ config'.blurrableSites = <<YoutubeCom>>
                  /\ config'.timeoutSeconds = 30
                  /\ config'.checkIntervalMs = 1000]_vars

\* loading failed, and the initial tab check has run on the defaults
C16_Witness ==
    /\ listening
    /\ config # LoadedConfig
    /\ config.timeoutSeconds = 30
    /\ activeTabId # NoTab
    /\ Callback("initialTab", 0) \notin pending

\* a tab event is being handled whose tab is on an address that does not parse
UnparsedAddressEvent ==
    \/ \E t \in Tabs : ActivatedReply(t) /\ ~UrlParses(tabUrl[t])
    \/ \E t \in Tabs : tabUrl'[t] # tabUrl[t] /\ ~UrlParses(tabUrl'[t])
    \/ \E w \in Windows : FocusReply(w) /\ ~UrlParses(tabUrl[winActive[w]])
    \/ /\ fx'.op \in {"tabLoadComplete", "initialTab"}
       /\ ~UrlParses(tabUrl[fx'.arg])

\* C17: an address that does not parse has no site key and is not tracked:
\* a tab event carrying it starts no Session, creates no siteTimeTrackers
\* entry and starts no heartbeat; no Session and no entry ever has a null key.
C17_UnparsedAddressNotTracked ==
    /\ [](/\ \A u \in UrlIds : ~UrlParses(u) =>
                (getSiteKey(u) = NullKey /\ ~isTargetSite(Self, u))
          /\ NullKey \notin DOMAIN siteTimeTrackers
          /\ \A t \in Sessions : activeSessions[t].siteKey # NullKey)
    /\ [][UnparsedAddressEvent =>
            /\ DOMAIN activeSessions' \subseteq Sessions
            /\ DOMAIN siteTimeTrackers' \subseteq DOMAIN siteTimeTrackers
            /\ checkInterval' => checkInterval
            /\ liveIntervals' <= liveIntervals]_vars

\* the initial tab check found the active tab on an address that does not
\* parse, and the activation of the other tab has then started a Session
C17_Witness ==
    /\ listening
    /\ Callback("initialTab", 0) \notin pending
    /\ fx.op = "tabActivatedCallback"
    /\ fx.started = {fx.arg}
    /\ \E t \in Tabs \ {fx.arg} : ~UrlParses(tabUrl[t])
    /\ Sessions = {fx.arg}

\* the verdict for the site tab t is on now
VerdictFor(t) ==
    /\ isTargetSite(Self, tabUrl[t])
    /\ getTimeInfoForSite(Self, getSiteKey(tabUrl[t])).shouldBeBlurred

\* C20: an applyBlur is sent to a tab, or posted to its connecting content
\* script from the tab's queue, only when the verdict for the site the tab
\* is on at that moment is "blur".
C20_ApplyOnlyWhileVerdictTrue ==
    [][\A t \in Tabs :
         /\ t \in SentTo(fx', "applyBlur") => VerdictFor(t)
         /\ (/\ renderer'[t] /\ ~renderer[t]
             /\ \E i \in 1..Len(fx'.posted) : fx'.posted[i] = "applyBlur")
            => VerdictFor(t)]_vars

\* C12: a navigation or reload event on tab t leaves tabBlurStates without
\* an entry for t, and the next "blur" verdict evaluated for t after it sends
\* applyBlur to t, whatever was sent to t before the navigation and whenever
\* the reply to it arrives.
C12_NavigationClearsBlurState ==
    [][/\ \A t \in navigated' \ navigated : ~MapHas(tabBlurStates', t)
       /\ \A i \in 1..Len(fx'.checked) :
             (fx'.checked[i].blur /\ fx'.checked[i].tab \in navigated)
                => fx'.checked[i].tab \in SentTo(fx', "applyBlur")]_vars


\* a step that sent exactly this one command, and no other
SentOnly(f, t, action) == f.sent = <<[tab |-> t, action |-> action]>>

BlurStateMaps == UNION {[S -> BOOLEAN] : S \in SUBSET Tabs}

\* what the verdict is computed from, and the verdicts a step gave
LowOf(c) ==
    <<c.config, c.siteTimeTrackers, c.activeSessions, c.activeTabId,
      c.waterBreakEndTime, c.checkInterval, c.liveIntervals, c.pending,
      [i \in 1..Len(c.fx.checked) |-> c.fx.checked[i]], c.fx.resp>>

\* the outcome of every handler that can run next, as far as LowOf shows it
Handled(c) ==
    LET c0 == [c EXCEPT !.fx = Idle]
    IN <<[t \in Tabs |-> LowOf(checkTabAndApplyBlur(c0, TabInfo(t)))],
         [t \in Tabs |-> LowOf(handleGetTimeStatus(c0, TabInfo(t)))],
         [t \in Tabs |-> LowOf(handleTabChange(c0, TabInfo(t)))],
         [t \in Tabs |->
            LowOf(handleTabChange([c0 EXCEPT !.activeTabId = t], TabInfo(t)))],
         [t \in Tabs |-> LowOf(handleTabActivated(c0, t))],
         [t \in Tabs |-> LowOf(handleTabUpdated(c0, t, TRUE, TabInfo(t)))],
         [w \in Windows \cup {WINDOW_ID_NONE} |->
            LowOf(handleWindowFocusChanged(c0, w))],
         [t \in Tabs |-> LowOf(handlePortConnection(c0, t))],
         LowOf(handleRequestWaterBreak(c0)),
         LowOf(RemoveBlurFromBlurredTabs(c0, 1)),
         LowOf(RecheckTargetTabs([c0 EXCEPT !.waterBreakEndTime = NoTime], 1)),
         LowOf(heartbeatCheck(c0)),
         [s \in SiteKeys |-> getTimeInfoForSite(c0, s).shouldBeBlurred]>>

\* C15: the verdict does not depend on what content scripts report.  In every
\* reachable state, with this.tabBlurStates replaced by any other value, every
\* handler gives the same verdicts and leaves the same trackers, Sessions,
\* active tab, water break, heartbeat and pending callbacks; and a report,
\* or the reply to a command, changes none of these.  So two runs with the
\* same events and different reports give the same verdicts at every step.
C15_VerdictIgnoresReports ==
    /\ LET handled == Handled(Self)
       IN \A b \in BlurStateMaps \ {tabBlurStates} :
             Handled([Self EXCEPT !.tabBlurStates = b]) = handled
    /\ \A t \in Tabs, b \in BOOLEAN :
          LowOf(handleReportBlurState(Self, t, b)) = LowOf(Self)
    /\ \A t \in Tabs, a \in Actions :
          /\ LowOf(updateBlurState(Self, t, a)) = LowOf(Self)
          /\ LowOf(handleSendMessageError(Self, "noReceiver", t, a)) = LowOf(Self)

\* the content script has reported "not blurred" against a standing flag, and
\* the verdict returned to it is still "blur"
C15_Witness ==
    /\ fx.op = "getTimeStatus"
    /\ fx.resp.shouldBeBlurred
    /\ MapHas(tabBlurStates, fx.arg) /\ tabBlurStates[fx.arg] = FALSE
    /\ breakRemoved = {}
    /\ inflight = EmptyMap
    /\ waterBreakEndTime = NoTime

\* the catch of a send to tab t that failed with this error has run
ErrorSettled(t, action, error) ==
    BagCount(inflight', <<t, action, error>>) < BagCount(inflight, <<t, action, error>>)

\* C21: the catch of a failed send appends the command to the tail of the
\* tab's queue when the error is "Receiving end does not exist" and leaves
\* every queue as it is for any other error; either way the blur flags, the
\* Sessions, the trackers and the water break are unchanged.
C21_FailureClassifiedOnce ==
    [][\A t \in Tabs, a \in Actions, e \in {"noReceiver", "otherError"} :
          ErrorSettled(t, a, e) =>
             /\ messageQueue' =
                   IF e = "noReceiver"
                   THEN MapSet(messageQueue, t, Append(QueueOf(messageQueue, t), a))
                   ELSE messageQueue
             /\ UNCHANGED <<tabBlurStates, activeSessions, siteTimeTrackers,
                            waterBreakEndTime>>]_vars

\* the heartbeat's applyBlur to tab 1 failed with another error: nothing is
\* in flight, nothing was queued and the tab is not flagged
C21_Witness ==
    /\ prevTick = [tab |-> 1, blur |-> TRUE]
    /\ inflight = EmptyMap
    /\ renderer[1]
    /\ ~MapHas(messageQueue, 1)
    /\ ~MapHas(tabBlurStates, 1)
    /\ MapHas(activeSessions, 1)

\* the then of a send to tab t that was answered has run
OkSettled(t, action) ==
    BagCount(inflight', <<t, action, "ok">>) < BagCount(inflight, <<t, action, "ok">>)

BlurFlag(states, t) == IF MapHas(states, t) THEN <<states[t]>> ELSE << >>

\* C22: the blur flag of a tab changes only when a command the tab's content
\* script answered is recorded (applyBlur: true, removeBlur: false) or when a
\* navigation clears it; and when queued commands are posted to a connecting
\* content script the flag becomes the effect of the last of them.
C22_LastCommandedFlag ==
    [][\A t \in Tabs :
         /\ BlurFlag(tabBlurStates', t) # BlurFlag(tabBlurStates, t) =>
               \/ \E a \in Actions :
                     /\ OkSettled(t, a)
                     /\ BlurFlag(tabBlurStates', t) = <<a = "applyBlur">>
               \/ /\ t \in navigated'
                  /\ BlurFlag(tabBlurStates', t) = << >>
         /\ (renderer'[t] /\ ~renderer[t] /\ fx'.posted # << >>) =>
               BlurFlag(tabBlurStates', t)
                  = <<fx'.posted[Len(fx'.posted)] = "applyBlur">>]_vars

BreakQueryStep ==
    Callback("breakQuery", 0) \in pending /\ Callback("breakQuery", 0) \notin pending'

\* C23: a water-break request queries the tabs at once, with no heartbeat in
\* between; when the query answers, removeBlur is sent to exactly the tabs
\* flagged blurred at that moment, one each, and nothing else is sent.
C23_OverrideRemovesBlurAtOnce ==
    [][/\ (waterBreakEndTime' # waterBreakEndTime /\ waterBreakEndTime' # NoTime)
            => Callback("breakQuery", 0) \in pending'
       /\ BreakQueryStep =>
            /\ SentTo(fx', "removeBlur") = {t \in Tabs : isTabBlurred(Self, t)}
            /\ Len(fx'.sent) = Cardinality({t \in Tabs : isTabBlurred(Self, t)})
            /\ SentTo(fx', "applyBlur") = {}]_vars

\* the query of a water-break request has just sent removeBlur to both tabs,
\* one of them not the active tab
C23_Witness ==
    /\ fx.op = "breakQuery"
    /\ SentTo(fx, "removeBlur") = Tabs
    /\ isWaterBreakActive(Self)
    /\ BagCount(inflight, <<1, "removeBlur", "sent">>) = 1
    /\ BagCount(inflight, <<2, "removeBlur", "sent">>) = 1

FocusLostStep == focusedWin # WINDOW_ID_NONE /\ focusedWin' = WINDOW_ID_NONE

\* the accumulated total of site s as a handler finds it: 0 when the entry is
\* missing or left from an earlier day
TotalToday(s) ==
    IF MapHas(siteTimeTrackers, s) /\ siteTimeTrackers[s].lastResetDate = today
    THEN siteTimeTrackers[s].totalElapsedTime ELSE 0

\* C24: when no window is focused any more and this.activeTabId has a Session,
\* the Session's elapsed time (now minus its start time) is added to its
\* site's total, that Session alone is removed and the heartbeat is stopped;
\* when it has none, trackers, Sessions and heartbeat stay as they are.
C24_FocusLostEndsSession ==
    [][FocusLostStep =>
         IF MapHas(activeSessions, activeTabId)
         THEN LET sessionInfo == activeSessions[activeTabId]
              IN /\ siteTimeTrackers'[sessionInfo.siteKey].totalElapsedTime =
                       TotalToday(sessionInfo.siteKey) + (now - sessionInfo.startTime)
                 /\ activeSessions' = MapDelete(activeSessions, activeTabId)
                 /\ ~checkInterval'
                 /\ liveIntervals' = IF checkInterval THEN liveIntervals - 1
                                      ELSE liveIntervals
         ELSE UNCHANGED <<siteTimeTrackers, activeSessions, checkInterval,
                          liveIntervals>>]_vars

\* the window has just lost focus and a Session that ran for some time was
\* folded and removed
C24_Witness ==
    /\ focusedWin = WINDOW_ID_NONE
    /\ fx.op = "windowFocusChanged"
    /\ fx.ended = {activeTabId}
    /\ Len(fx.folded) = 1 /\ fx.folded[1].ms > 0
    /\ Sessions = {}
    /\ ~checkInterval

\* tab t has a new address, or (seen by what the handler did) finished loading
TabUpdatedStep(t) ==
    \/ tabUrl'[t] # tabUrl[t]
    \/ fx'.op = "tabLoadComplete" /\ fx'.arg = t

\* C25: when tab t changes its address or finishes loading, a Session on t is
\* ended, active tab or not: its elapsed time is folded into the site the
\* Session recorded when it started, and it is removed; a Session is started
\* in that step only on t itself, only if t is this.activeTabId, is the
\* active tab of its window and its address now is a tracked site.
C25_TabUpdateEndsSession ==
    [][\A t \in Tabs : TabUpdatedStep(t) =>
         /\ MapHas(activeSessions, t) =>
               LET sessionInfo == activeSessions[t]
                   elapsed == now - sessionInfo.startTime
               IN /\ t \in fx'.ended
                  /\ fx'.folded = <<[siteKey |-> sessionInfo.siteKey, ms |-> elapsed]>>
                  /\ siteTimeTrackers'[sessionInfo.siteKey].totalElapsedTime =
                        TotalToday(sessionInfo.siteKey) + elapsed
                  /\ MapHas(activeSessions', t) => t \in fx'.started
         /\ fx'.started # {} =>
               /\ fx'.started = {t}
               /\ t = activeTabId
               /\ TabInfo(t).active
               /\ isTargetSite(Self, tabUrl'[t])]_vars

\* a tab that is not the active tab has just left the tracked site, and its
\* Session, which ran for some time, was folded into that site and removed
C25_Witness ==
    /\ fx.op = "tabNavigated"
    /\ fx.arg # activeTabId
    /\ winActive[1] # fx.arg
    /\ ~isTargetSite(Self, tabUrl[fx.arg])
    /\ fx.ended = {fx.arg}
    /\ Len(fx.folded) = 1 /\ fx.folded[1].ms > 0 /\ fx.folded[1].siteKey = YoutubeCom
    /\ ~MapHas(activeSessions, fx.arg)

\* C26: there is never more than one setInterval timer alive, and it is the
\* one this.checkInterval holds: a start while one is running clears it
\* first; a step that ends a Session and starts none while the heartbeat is
\* already stopped leaves it stopped, with no timer.
C26_OneHeartbeatTimer ==
    /\ [](liveIntervals = IF checkInterval THEN 1 ELSE 0)
    /\ [][(fx'.ended # {} /\ fx'.started = {} /\ ~checkInterval) =>
             (~checkInterval' /\ liveIntervals' = liveIntervals)]_vars

\* a Session has just started next to another one left running, so that the
\* heartbeat was started a second time; one timer is alive
C26_Witness ==
    /\ fx.started # {}
    /\ fx.ended = {}
    /\ Cardinality(Sessions) = 2
    /\ checkInterval
    /\ liveIntervals = 1

\* the steps that only compute a verdict: a status query, a heartbeat tick
\* and its check, the check after a Session starts
VerdictOps == {"getTimeStatus", "heartbeatTick", "heartbeat", "sessionCheck"}

\* C27: a status query, a heartbeat tick or a check leaves the Sessions as
\* they are and every tracker of today as it is (one it creates starts at
\* 0), however long the Session has been running; and a total grows only in
\* a step that ends a Session, by what that step folded.
C27_ElapsedNotPersisted ==
    [][/\ fx'.op \in VerdictOps =>
            /\ activeSessions' = activeSessions
            /\ \A s \in DOMAIN siteTimeTrackers' :
                  IF MapHas(siteTimeTrackers, s)
                  THEN siteTimeTrackers[s].lastResetDate = today
                          => siteTimeTrackers'[s] = siteTimeTrackers[s]
                  ELSE siteTimeTrackers'[s].totalElapsedTime = 0
       /\ \A s \in SiteKeys :
            TotalOf(siteTimeTrackers', s) > TotalOf(siteTimeTrackers, s) =>
               /\ fx'.ended # {}
               /\ TotalOf(siteTimeTrackers', s)
                     = TotalToday(s) + FoldedInto(fx'.folded, s)]_vars

\* a status query has just reported more time than the tracker holds: the
\* Session's running time is in the answer and not in the tracker
C27_Witness ==
    /\ fx.op = "getTimeStatus"
    /\ fx.resp.present
    /\ fx.resp.siteKey # NullKey
    /\ MapHas(activeSessions, activeTabId)
    /\ now > activeSessions[activeTabId].startTime
    /\ fx.resp.totalTime > TotalOf(siteTimeTrackers, fx.resp.siteKey)

\* C28: every tracker's total is at least 0; an entry, once made, stays; and
\* while its date stays the same its total does not decrease.  A total gets
\* smaller only in a step that finds the entry dated before today and dates
\* it today, starting again from 0.
C28_TotalsMonotonic ==
    /\ [](\A s \in DOMAIN siteTimeTrackers : siteTimeTrackers[s].totalElapsedTime >= 0)
    /\ [][\A s \in DOMAIN siteTimeTrackers :
            /\ MapHas(siteTimeTrackers', s)
            /\ IF siteTimeTrackers'[s].lastResetDate = siteTimeTrackers[s].lastResetDate
               THEN siteTimeTrackers'[s].totalElapsedTime
                       >= siteTimeTrackers[s].totalElapsedTime
               ELSE /\ siteTimeTrackers[s].lastResetDate # today
                    /\ siteTimeTrackers'[s].lastResetDate = today
                    /\ siteTimeTrackers'[s].totalElapsedTime
                          = FoldedInto(fx'.folded, s)]_vars

\* a second Session of the day has just been folded on top of the first
C28_Witness ==
    /\ Len(fx.folded) = 1
    /\ fx.folded[1].ms > 0
    /\ fx.resets = {}
    /\ siteTimeTrackers[fx.folded[1].siteKey].totalElapsedTime > fx.folded[1].ms
    /\ siteTimeTrackers[fx.folded[1].siteKey].lastResetDate = today

\* isTargetSite's test of a site key against config.blurrableSites
OnSiteList(s) ==
    /\ config.present
    /\ \E i \in 1..Len(config.blurrableSites) :
          \/ Includes(s, config.blurrableSites[i])
          \/ Includes(config.blurrableSites[i], s)

\* C29: every Session is on a site of the configured list, and a tracker of a
\* site not on the list, made by a status query, holds no time.
C29_OnlyTrackedSitesTimed ==
    /\ \A t \in Sessions : OnSiteList(activeSessions[t].siteKey)
    /\ \A s \in DOMAIN siteTimeTrackers :
          ~OnSiteList(s) => siteTimeTrackers[s].totalElapsedTime = 0

\* a status query from a page of an untracked site has made a tracker for it,
\* after the tracked site has been given time
C29_Witness ==
    /\ \E s \in DOMAIN siteTimeTrackers : ~OnSiteList(s)
    /\ \E s \in DOMAIN siteTimeTrackers :
          OnSiteList(s) /\ siteTimeTrackers[s].totalElapsedTime > 0
    /\ Sessions # {}

\* the step just taken answered the popup's request for its data
PopupAnswered == fx.op \in {"getPopupData", "popupData"} /\ fx.resp.present

\* C30: in every answer to getPopupData, shouldBeBlurred comes only with a
\* water break that is not active and a totalTime of at least timeoutMs; and
\* waterBreakRemaining is above 0 when waterBreakActive is true and 0 when it
\* is false or null.
C30_StatusConsistent ==
    PopupAnswered =>
        /\ fx.resp.shouldBeBlurred =>
              /\ fx.resp.waterBreakActive # "true"
              /\ fx.resp.totalTime >= fx.resp.timeoutMs
        /\ IF fx.resp.waterBreakActive = "true"
           THEN fx.resp.waterBreakRemaining > 0
           ELSE fx.resp.waterBreakRemaining = 0

====
